---------------------------- MODULE Spec2Model ----------------------------
(***************************************************************************)
(* X402Client (src/src/x402_bazaar/x402_client.py): the payment-gated API  *)
(* call of the x402 Bazaar client, as a state machine.                     *)
(*                                                                         *)
(* Python values are tagged records: S(s) a str (s a sequence of           *)
(* characters or literal pieces), N(n) a number, None, L(l) a list, D(d) a *)
(* dict (d a function from keys to values), B(b) a bool.  A str is a       *)
(* sequence so that concatenation (f-strings), upper() and slicing are     *)
(* computed, not assumed.                                                  *)
(*                                                                         *)
(* Spec runs the client's operations one at a time; SpecConcurrent         *)
(* interleaves call_api invocations on one client; SpecPlugin runs the     *)
(* hooks of X402BazaarPlugin (src/src/x402_bazaar/__init__.py) over its    *)
(* own client.  threads is used by SpecConcurrent only; enabled,           *)
(* command_cache and hook by SpecPlugin only.                              *)
(***************************************************************************)
EXTENDS Integers, Sequences, FiniteSets, TLC

VARIABLES base_url, timeout, session_headers, pc, call, threads, enabled,
          command_cache, hook

vars ==
    <<base_url, timeout, session_headers, pc, call, threads, enabled,
      command_cache, hook>>

---------------------------------------------------------------------------
(* Python values *)

S(s) == [t |-> "str", s |-> s]
N(n) == [t |-> "num", n |-> n]
B(b) == [t |-> "bool", b |-> b]
L(l) == [t |-> "list", l |-> l]
D(d) == [t |-> "dict", d |-> d]
None == [t |-> "null"]

EmptyDict == [k \in {} |-> None]

\* bool(v): None, "", 0, [], {} and False are falsy
Truthy(v) ==
    CASE v.t = "null" -> FALSE
      [] v.t = "str"  -> v.s # <<>>
      [] v.t = "num"  -> v.n # 0
      [] v.t = "bool" -> v.b
      [] v.t = "list" -> v.l # <<>>
      [] v.t = "dict" -> DOMAIN v.d # {}

\* str(v) as an f-string renders it (scalars only: the model formats no list or dict)
Format(v) ==
    CASE v.t = "str"  -> v.s
      [] v.t = "num"  -> <<ToString(v.n)>>
      [] v.t = "null" -> <<"None">>
      [] v.t = "bool" -> IF v.b THEN <<"True">> ELSE <<"False">>

\* str.upper(), character by character
UpperTable ==
    [a |-> "A", b |-> "B", d |-> "D", e |-> "E", g |-> "G", l |-> "L",
     o |-> "O", p |-> "P", s |-> "S", t |-> "T", u |-> "U"]

UpperChar(c) == IF c \in DOMAIN UpperTable THEN UpperTable[c] ELSE c

Upper(s) == [i \in DOMAIN s |-> UpperChar(s[i])]

\* str.lower(), character by character
LowerTable ==
    [A |-> "a", B |-> "b", C |-> "c", D |-> "d", E |-> "e", F |-> "f",
     G |-> "g", H |-> "h"]

LowerChar(c) == IF c \in DOMAIN LowerTable THEN LowerTable[c] ELSE c

Lower(s) == [i \in DOMAIN s |-> LowerChar(s[i])]

\* p in s (substring)
Contains(s, p) ==
    \E i \in 0..(Len(s) - Len(p)) : SubSeq(s, i + 1, i + Len(p)) = p

\* s[:n]
Prefix(s, n) == SubSeq(s, 1, IF Len(s) < n THEN Len(s) ELSE n)

\* d.get(k, default) on a dict
Get(d, k, default) == IF k \in DOMAIN d.d THEN d.d[k] ELSE default

\* {**a, **b}: b wins on key collision
Merge(a, b) ==
    [k \in DOMAIN a \cup DOMAIN b |-> IF k \in DOMAIN b THEN b[k] ELSE a[k]]

---------------------------------------------------------------------------
(* Class constants *)

BASE_URL == <<"https://x402-api.onrender.com">>
TIMEOUT == 30
PAYMENT_ADDRESS == <<"0xfb1c478BD5567BdcD39782E0D6D23418bFda2430">>
PAYMENT_CHAIN == <<"b", "a", "s", "e">>


---------------------------------------------------------------------------
(* Outcomes of a call: a returned value, or an exception that reaches the *)
(* caller                                                                  *)

Returned(v) == [kind |-> "return", value |-> v]
Raised(e) == [kind |-> "raise", exc |-> e]

---------------------------------------------------------------------------
(* X402Client.call_api *)

\* payment_headers without the chain header
M_payment_headers_no_chain(payment_tx_hash) ==
    IF Truthy(payment_tx_hash)
    THEN [k \in {"X-Payment-TxHash"} |-> payment_tx_hash]
    ELSE EmptyDict

\* payment_headers testing "is not None" in place of truthiness
M_payment_headers_not_none(payment_tx_hash) ==
    IF payment_tx_hash # None
    THEN [k \in {"X-Payment-TxHash", "X-Payment-Chain"} |->
            IF k = "X-Payment-TxHash" THEN payment_tx_hash ELSE S(PAYMENT_CHAIN)]
    ELSE EmptyDict

\* lines 172-176: the per-call headers
payment_headers(payment_tx_hash) ==
    IF Truthy(payment_tx_hash)
    THEN [k \in {"X-Payment-TxHash", "X-Payment-Chain"} |->
            IF k = "X-Payment-TxHash" THEN payment_tx_hash ELSE S(PAYMENT_CHAIN)]
    ELSE EmptyDict

\* lines 180-185: self.session.get(url, params=..., headers=..., timeout=...)
session_get(url, params, headers, tmo) ==
    [verb |-> "GET", url |-> url, params |-> params, headers |-> headers,
     timeout |-> tmo]

\* lines 187-192: self.session.post(url, json=..., headers=..., timeout=...)
session_post(url, params, headers, tmo) ==
    [verb |-> "POST", url |-> url, json |-> params, headers |-> headers,
     timeout |-> tmo]

\* payment_status testing "is not None" in place of truthiness
M_payment_status_not_none(payment_tx_hash) ==
    IF payment_tx_hash # None THEN S(<<"completed">>) ELSE S(<<"free">>)

\* line 210
payment_status(payment_tx_hash) ==
    IF Truthy(payment_tx_hash) THEN S(<<"completed">>) ELSE S(<<"free">>)

\* lines 200-211: status 200
handle_200(body, payment_tx_hash) ==
    LET data == IF body.parses THEN body.json
                ELSE D([k \in {"text"} |-> S(body.text)])
    IN Returned(D([success |-> B(TRUE),
                   data |-> data,
                   payment_status |-> payment_status(payment_tx_hash)]))

\* parse_payment_details whose fallback payload is empty
M_parse_payment_details_empty(body) ==
    IF body.parses THEN body.json ELSE D(EmptyDict)

\* lines 217-224: the 402 body, or the synthesized payload when it does not parse
parse_payment_details(body) ==
    IF body.parses THEN body.json
    ELSE D([amount |-> S(<<"unknown">>),
            address |-> S(PAYMENT_ADDRESS),
            chain |-> S(PAYMENT_CHAIN)])

\* line 227
resolve_cost(payment_details) ==
    Get(payment_details, "amount",
        Get(payment_details, "required_payment", S(<<"unknown">>)))

\* lines 229-240: the client-synthesized fields
build_instructions(cost_usdc) ==
    [message |-> S(<<"Payment required: ">> \o Format(cost_usdc) \o <<" USDC">>),
     instructions |-> L(<<
        S(<<"1. Send ">> \o Format(cost_usdc) \o <<" USDC on ">>
          \o Upper(PAYMENT_CHAIN) \o <<" to: ">> \o PAYMENT_ADDRESS),
        S(<<"2. Wait for transaction confirmation">>),
        S(<<"3. Call this endpoint again with transaction hash">>) >>),
     payment_address |-> S(PAYMENT_ADDRESS),
     payment_chain |-> S(PAYMENT_CHAIN),
     payment_token |-> S(<<"USDC">>),
     payment_amount |-> cost_usdc]

\* line 245: {**payment_details, **instructions}
merge_details(payment_details, instructions) ==
    D(Merge(payment_details.d, instructions))

\* handle_402 reporting success
M_handle_402_success(body) ==
    LET payment_details == parse_payment_details(body) IN
    IF payment_details.t # "dict" THEN Raised("AttributeError")
    ELSE LET cost_usdc == resolve_cost(payment_details)
             instructions == build_instructions(cost_usdc)
         IN Returned(D([success |-> B(TRUE),
                        payment_required |-> B(TRUE),
                        payment_details |-> merge_details(payment_details, instructions),
                        cost_usdc |-> cost_usdc]))

\* lines 213-247: status 402; .get on a body that is not a dict raises
handle_402(body) ==
    LET payment_details == parse_payment_details(body) IN
    IF payment_details.t # "dict" THEN Raised("AttributeError")
    ELSE LET cost_usdc == resolve_cost(payment_details)
             instructions == build_instructions(cost_usdc)
         IN Returned(D([success |-> B(FALSE),
                        payment_required |-> B(TRUE),
                        payment_details |-> merge_details(payment_details, instructions),
                        cost_usdc |-> cost_usdc]))

\* the Failure dict {"success": False, "error": error_msg}
failure(error_msg) == Returned(D([success |-> B(FALSE), error |-> error_msg]))

\* lines 249-261: status 400
handle_400(body) ==
    IF ~body.parses THEN failure(S(body.text))
    ELSE IF body.json.t # "dict" THEN Raised("AttributeError")
    ELSE failure(Get(body.json, "error", S(<<"Bad request">>)))

\* lines 263-269: status 429
handle_429 == failure(S(<<"Rate limit exceeded. Please try again later.">>))

\* lines 271-277: status 500
handle_500 == failure(S(<<"Server error. Please try again later.">>))

TEXT_LIMIT == 200

\* lines 279-291: any other status
handle_other(status_code, body) ==
    LET http == <<"HTTP ">> \o Format(N(status_code)) IN
    IF ~body.parses
    THEN failure(S(http \o <<": ">> \o Prefix(body.text, TEXT_LIMIT)))
    ELSE IF body.json.t # "dict" THEN Raised("AttributeError")
    ELSE failure(Get(body.json, "error", S(http)))

\* handle_response without the 429 branch: 429 falls to the other statuses
M_handle_response_no_429(response, payment_tx_hash) ==
    CASE response.status_code = 200 -> handle_200(response.body, payment_tx_hash)
      [] response.status_code = 402 -> handle_402(response.body)
      [] response.status_code = 400 -> handle_400(response.body)
      [] response.status_code = 500 -> handle_500
      [] OTHER -> handle_other(response.status_code, response.body)

\* lines 199-291: the branch on response.status_code
handle_response(response, payment_tx_hash) ==
    CASE response.status_code = 200 -> handle_200(response.body, payment_tx_hash)
      [] response.status_code = 402 -> handle_402(response.body)
      [] response.status_code = 400 -> handle_400(response.body)
      [] response.status_code = 429 -> handle_429
      [] response.status_code = 500 -> handle_500
      [] OTHER -> handle_other(response.status_code, response.body)

\* on_timeout reporting the class default in place of self.timeout
M_on_timeout_default(tmo) ==
    failure(S(<<"Request timeout after ">> \o Format(N(TIMEOUT)) \o <<" seconds">>))

\* lines 293-298
on_timeout(tmo) ==
    failure(S(<<"Request timeout after ">> \o Format(N(tmo)) \o <<" seconds">>))

\* lines 300-305
on_request_exception(msg) == failure(S(<<"Request error: ">> \o msg))

\* exchange reporting a 402 that answers a request with a proof as a failure
M_exchange_proof_rejected(net, tmo, payment_tx_hash) ==
    CASE net.kind = "timeout"  -> on_timeout(tmo)
      [] net.kind = "error"    -> on_request_exception(net.msg)
      [] net.kind = "response" ->
            IF net.status_code = 402 /\ Truthy(payment_tx_hash)
            THEN failure(S(<<"Payment proof rejected">>))
            ELSE handle_response(net, payment_tx_hash)

\* what the one request of a call leads to: net is what the network does with it
exchange(net, tmo, payment_tx_hash) ==
    CASE net.kind = "timeout"  -> on_timeout(tmo)
      [] net.kind = "error"    -> on_request_exception(net.msg)
      [] net.kind = "response" -> handle_response(net, payment_tx_hash)

\* lines 193-197
unsupported_method(method) ==
    failure(S(<<"Unsupported HTTP method: ">> \o Format(method)))

\* line 168
build_url(base, endpoint) == Format(base) \o Format(endpoint)

\* call_api comparing the method as given, without upper()
M_call_api_case_sensitive(self, endpoint, params, method, payment_tx_hash, net) ==
    LET url == build_url(self.base_url, endpoint)
        headers == payment_headers(payment_tx_hash)
    IN  IF method.s = <<"G", "E", "T">>
        THEN [sent |-> <<session_get(url, params, headers, self.timeout)>>,
              outcome |-> exchange(net, self.timeout, payment_tx_hash)]
        ELSE IF method.s = <<"P", "O", "S", "T">>
        THEN [sent |-> <<session_post(url, params, headers, self.timeout)>>,
              outcome |-> exchange(net, self.timeout, payment_tx_hash)]
        ELSE [sent |-> <<>>, outcome |-> unsupported_method(method)]

\* call_api sending the request again when a call with a proof is answered 402
M_call_api_retry(self, endpoint, params, method, payment_tx_hash, net) ==
    LET url == build_url(self.base_url, endpoint)
        headers == payment_headers(payment_tx_hash)
        again == /\ net.kind = "response" /\ net.status_code = 402
                 /\ Truthy(payment_tx_hash)
        get == session_get(url, params, headers, self.timeout)
        post == session_post(url, params, headers, self.timeout)
    IN  IF Upper(method.s) = <<"G", "E", "T">>
        THEN [sent |-> IF again THEN <<get, get>> ELSE <<get>>,
              outcome |-> exchange(net, self.timeout, payment_tx_hash)]
        ELSE IF Upper(method.s) = <<"P", "O", "S", "T">>
        THEN [sent |-> IF again THEN <<post, post>> ELSE <<post>>,
              outcome |-> exchange(net, self.timeout, payment_tx_hash)]
        ELSE [sent |-> <<>>, outcome |-> unsupported_method(method)]

\* lines 167-305: the requests sent, in order, and the outcome
call_api(self, endpoint, params, method, payment_tx_hash, net) ==
    LET url == build_url(self.base_url, endpoint)
        headers == payment_headers(payment_tx_hash)
    IN  IF Upper(method.s) = <<"G", "E", "T">>
        THEN [sent |-> <<session_get(url, params, headers, self.timeout)>>,
              outcome |-> exchange(net, self.timeout, payment_tx_hash)]
        ELSE IF Upper(method.s) = <<"P", "O", "S", "T">>
        THEN [sent |-> <<session_post(url, params, headers, self.timeout)>>,
              outcome |-> exchange(net, self.timeout, payment_tx_hash)]
        ELSE [sent |-> <<>>, outcome |-> unsupported_method(method)]

---------------------------------------------------------------------------
(* Discovery, search, lookup, marketplace info and statistics *)

\* self.session.get(url, timeout=self.timeout)
session_get_plain(url, tmo) == [verb |-> "GET", url |-> url, timeout |-> tmo]

\* response.raise_for_status(): HTTPError for a 4xx or 5xx status
raises_for_status(response) ==
    response.status_code >= 400 /\ response.status_code < 600

\* the exception self.session.get raises on a transport failure
transport_exception(net) ==
    IF net.kind = "timeout" THEN "Timeout" ELSE "RequestException"

\* discover_services turning a failure into an empty list
M_discover_services_swallow(self, net) ==
    [sent |-> <<session_get_plain(Format(self.base_url) \o <<"/api/services">>,
                                  self.timeout)>>,
     outcome |->
        IF net.kind # "response" THEN Returned(L(<<>>))
        ELSE IF raises_for_status(net) THEN Returned(L(<<>>))
        ELSE IF ~net.body.parses THEN Raised("JSONDecodeError")
        ELSE IF net.body.json.t \in {"num", "null", "bool"} THEN Raised("TypeError")
        ELSE Returned(net.body.json)]

\* lines 47-71: the except clause logs and re-raises; len() of a JSON value
\* that has no length raises TypeError
discover_services(self, net) ==
    [sent |-> <<session_get_plain(Format(self.base_url) \o <<"/api/services">>,
                                  self.timeout)>>,
     outcome |->
        IF net.kind # "response" THEN Raised(transport_exception(net))
        ELSE IF raises_for_status(net) THEN Raised("HTTPError")
        ELSE IF ~net.body.parses THEN Raised("JSONDecodeError")
        ELSE IF net.body.json.t \in {"num", "null", "bool"} THEN Raised("TypeError")
        ELSE Returned(net.body.json)]

\* the filter requiring each field to be present
M_matches_fields_required(svc, q) ==
    \/ "name" \in DOMAIN svc.d /\ Contains(Lower(svc.d["name"].s), q)
    \/ "description" \in DOMAIN svc.d /\ Contains(Lower(svc.d["description"].s), q)
    \/ /\ "tags" \in DOMAIN svc.d
       /\ \E i \in 1..Len(svc.d["tags"].l) : Contains(Lower(svc.d["tags"].l[i].s), q)

\* the filter looking at name and description only
M_matches_no_tags(svc, q) ==
    \/ Contains(Lower(Get(svc, "name", S(<<>>)).s), q)
    \/ Contains(Lower(Get(svc, "description", S(<<>>)).s), q)

\* lines 89-91: the filter of search_services, q already lower-cased
matches(svc, q) ==
    \/ Contains(Lower(Get(svc, "name", S(<<>>)).s), q)
    \/ Contains(Lower(Get(svc, "description", S(<<>>)).s), q)
    \/ LET tags == Get(svc, "tags", L(<<>>)).l
       IN \E i \in 1..Len(tags) : Contains(Lower(tags[i].s), q)

\* search_services returning every service when nothing matches
M_search_services_fallback_all(self, query, net) ==
    LET found == discover_services(self, net) IN
    IF found.outcome.kind = "raise" THEN found
    ELSE LET q == Lower(query.s)
             results == SelectSeq(found.outcome.value.l,
                                  LAMBDA svc : matches(svc, q))
         IN [sent |-> found.sent,
             outcome |-> Returned(L(IF results = <<>>
                                    THEN found.outcome.value.l ELSE results))]

\* lines 73-98: the except clause logs and re-raises
search_services(self, query, net) ==
    LET found == discover_services(self, net) IN
    IF found.outcome.kind = "raise" THEN found
    ELSE LET q == Lower(query.s)
         IN [sent |-> found.sent,
             outcome |-> Returned(L(SelectSeq(found.outcome.value.l,
                                              LAMBDA svc : matches(svc, q))))]

\* the first service of services whose name, lower-cased, is wanted
RECURSIVE first_named(_, _)
first_named(services, wanted) ==
    IF services = <<>> THEN None
    ELSE IF Lower(Get(Head(services), "name", S(<<>>)).s) = wanted
    THEN Head(services)
    ELSE first_named(Tail(services), wanted)

\* the first service of services whose name is exactly wanted
RECURSIVE first_named_exactly(_, _)
first_named_exactly(services, wanted) ==
    IF services = <<>> THEN None
    ELSE IF Get(Head(services), "name", S(<<>>)).s = wanted
    THEN Head(services)
    ELSE first_named_exactly(Tail(services), wanted)

\* get_service_details comparing the names as they are
M_get_service_details_case_sensitive(self, service_name, net) ==
    LET found == discover_services(self, net) IN
    [sent |-> found.sent,
     outcome |->
        IF found.outcome.kind = "raise" THEN Returned(None)
        ELSE Returned(first_named_exactly(found.outcome.value.l, service_name.s))]

\* get_service_details lower-casing the service's name only
M_get_service_details_query_not_lowered(self, service_name, net) ==
    LET found == discover_services(self, net) IN
    [sent |-> found.sent,
     outcome |->
        IF found.outcome.kind = "raise" THEN Returned(None)
        ELSE Returned(first_named(found.outcome.value.l, service_name.s))]

\* lines 307-326: any exception of the discovery gives None
get_service_details(self, service_name, net) ==
    LET found == discover_services(self, net) IN
    [sent |-> found.sent,
     outcome |->
        IF found.outcome.kind = "raise" THEN Returned(None)
        ELSE Returned(first_named(found.outcome.value.l, Lower(service_name.s)))]

HTML_LIMIT == 500

\* get_marketplace_info without raise_for_status: an error page becomes the
\* fallback info
M_get_marketplace_info_no_status_check(self, net) ==
    [sent |-> <<session_get_plain(Format(self.base_url) \o <<"/">>, self.timeout)>>,
     outcome |->
        IF net.kind # "response" THEN Raised(transport_exception(net))
        ELSE IF net.body.parses THEN Returned(net.body.json)
        ELSE Returned(D([name |-> S(<<"x402 Bazaar">>),
                         status |-> S(<<"online">>),
                         html |-> S(Prefix(net.body.text, HTML_LIMIT))]))]

\* lines 100-132
get_marketplace_info(self, net) ==
    [sent |-> <<session_get_plain(Format(self.base_url) \o <<"/">>, self.timeout)>>,
     outcome |->
        IF net.kind # "response" THEN Raised(transport_exception(net))
        ELSE IF raises_for_status(net) THEN Raised("HTTPError")
        ELSE IF net.body.parses THEN Returned(net.body.json)
        ELSE Returned(D([name |-> S(<<"x402 Bazaar">>),
                         status |-> S(<<"online">>),
                         html |-> S(Prefix(net.body.text, HTML_LIMIT))]))]

\* lines 346-367
get_public_stats(self, net) ==
    [sent |-> <<session_get_plain(Format(self.base_url) \o <<"/api/public-stats">>,
                                  self.timeout)>>,
     outcome |->
        IF net.kind # "response" THEN Raised(transport_exception(net))
        ELSE IF raises_for_status(net) THEN Raised("HTTPError")
        ELSE IF ~net.body.parses THEN Raised("JSONDecodeError")
        ELSE Returned(net.body.json)]

\* test_connection counting every status below 500 as reachable
M_test_connection_below_500(self, net) ==
    [sent |-> <<session_get_plain(Format(self.base_url) \o <<"/">>, self.timeout)>>,
     outcome |->
        IF net.kind # "response" THEN Returned(B(FALSE))
        ELSE Returned(B(net.status_code < 500))]

\* lines 328-344
test_connection(self, net) ==
    [sent |-> <<session_get_plain(Format(self.base_url) \o <<"/">>, self.timeout)>>,
     outcome |->
        IF net.kind # "response" THEN Returned(B(FALSE))
        ELSE Returned(B(net.status_code \in {200, 402, 400}))]

---------------------------------------------------------------------------
(* Convenience shortcuts *)

\* the default of call_api's parameter method (line 138)
DEFAULT_METHOD == S(<<"G", "E", "T">>)

\* lines 369-380
call_weather_api(self, city, payment_tx_hash, net) ==
    call_api(self, S(<<"/api/weather">>), D([k \in {"city"} |-> city]),
             DEFAULT_METHOD, payment_tx_hash, net)

\* lines 382-393
call_search_api(self, query, payment_tx_hash, net) ==
    call_api(self, S(<<"/api/search">>), D([k \in {"q"} |-> query]),
             DEFAULT_METHOD, payment_tx_hash, net)

\* lines 395-406
call_crypto_api(self, symbol, payment_tx_hash, net) ==
    call_api(self, S(<<"/api/crypto">>), D([k \in {"symbol"} |-> symbol]),
             DEFAULT_METHOD, payment_tx_hash, net)

\* call_image_api leaving the method to call_api's default
M_call_image_api_default_method(self, prompt, payment_tx_hash, net) ==
    call_api(self, S(<<"/api/image">>), D([k \in {"prompt"} |-> prompt]),
             DEFAULT_METHOD, payment_tx_hash, net)

\* lines 408-419
call_image_api(self, prompt, payment_tx_hash, net) ==
    call_api(self, S(<<"/api/image">>), D([k \in {"prompt"} |-> prompt]),
             S(<<"P", "O", "S", "T">>), payment_tx_hash, net)

\* lines 421-432
call_scraper_api(self, url, payment_tx_hash, net) ==
    call_api(self, S(<<"/api/scrape">>), D([k \in {"url"} |-> url]),
             DEFAULT_METHOD, payment_tx_hash, net)

\* the shortcut of the given name
shortcut(name, self, arg, payment_tx_hash, net) ==
    CASE name = "call_weather_api" -> call_weather_api(self, arg, payment_tx_hash, net)
      [] name = "call_search_api"  -> call_search_api(self, arg, payment_tx_hash, net)
      [] name = "call_crypto_api"  -> call_crypto_api(self, arg, payment_tx_hash, net)
      [] name = "call_image_api"   -> call_image_api(self, arg, payment_tx_hash, net)
      [] name = "call_scraper_api" -> call_scraper_api(self, arg, payment_tx_hash, net)

---------------------------------------------------------------------------
(* Inputs: what callers pass and what the network answers *)

\* a run of n characters
Repeat(c, n) == [i \in 1..n |-> c]

MaxKeys == 2

BodyKeys ==
    {"amount", "required_payment", "error", "message", "instructions",
     "payment_address", "payment_chain", "payment_token", "payment_amount",
     "note"}

\* a cost is a string or a number; the other keys carry one server-chosen value
CostVals == {S(<<"0.05">>), N(2)}

ServerVal == S(<<"set by server">>)

BodyVals(k) ==
    IF k \in {"amount", "required_payment"} THEN CostVals ELSE {ServerVal}

\* JSON objects of at most MaxKeys keys
JsonObjects ==
    UNION {{D(f) : f \in {g \in [K -> CostVals \cup {ServerVal}] :
                            \A k \in K : g[k] \in BodyVals(k)}} :
             K \in {X \in SUBSET BodyKeys : Cardinality(X) <= MaxKeys}}

\* JSON values that are no object: an array, a string, a number, null
JsonOthers == {L(<<>>), S(<<"0.05">>), N(2), None}

\* bodies on which response.json() raises JSONDecodeError
RawTexts ==
    {Repeat("x", n) : n \in {0, 2, TEXT_LIMIT, TEXT_LIMIT + 1}}

Bodies ==
    {[parses |-> TRUE, json |-> j] : j \in JsonObjects \cup JsonOthers}
    \cup {[parses |-> FALSE, text |-> x] : x \in RawTexts}

StatusCodes == {200, 402, 400, 429, 500, 404}

Responses ==
    {[kind |-> "response", status_code |-> c, body |-> b] :
        c \in StatusCodes, b \in Bodies}

\* requests.Timeout, or another requests.RequestException with its str()
TransportFailures ==
    {[kind |-> "timeout"], [kind |-> "error", msg |-> <<"Connection refused">>]}

Nets == Responses \cup TransportFailures

Endpoints == {S(<<"/api/weather">>), S(<<"/api/test">>)}

ParamsArgs == {None, D([city |-> S(<<"Paris">>)])}

Methods ==
    {S(<<"G", "E", "T">>), S(<<"g", "e", "t">>), S(<<"G", "e", "t">>),
     S(<<"P", "O", "S", "T">>), S(<<"p", "o", "s", "t">>),
     S(<<"p", "O", "s", "T">>),
     S(<<"P", "U", "T">>), S(<<"d", "e", "l", "e", "t", "e">>),
     S(<<"G", "E", "T", "S">>), S(<<>>)}

Proofs == {None, S(<<>>), S(<<"0xabc123">>)}

BaseUrlArgs == {None, S(<<>>), S(<<"http://localhost:3000">>)}

TimeoutArgs == {TIMEOUT, 5}

MaxServices == 2

ServiceNames == {<<"A", "b">>, <<"a", "b">>}

ServiceDescription == <<"C", "d">>

ServiceTags == <<S(<<"E", "f">>), S(<<"G", "h">>)>>

\* the fields a service may have: each may be missing
ServiceFields ==
    {[k \in {"name"} |-> S(n)] : n \in ServiceNames} \cup {EmptyDict}

\* services of the marketplace: name, description and tags may each be missing
Services ==
    {D(Merge(Merge(f, d), g)) :
        f \in ServiceFields,
        d \in {EmptyDict, [k \in {"description"} |-> S(ServiceDescription)]},
        g \in {EmptyDict, [k \in {"tags"} |-> L(ServiceTags)]}}

\* discovery responses: lists of at most MaxServices services
ServiceLists == UNION {[1..n -> Services] : n \in 0..MaxServices}

\* what the network does with the GET of /api/services
DiscoveryNets ==
    TransportFailures
    \cup {[kind |-> "response", status_code |-> 200,
           body |-> [parses |-> TRUE, json |-> L(l)]] : l \in ServiceLists}
    \cup {[kind |-> "response", status_code |-> c,
           body |-> [parses |-> TRUE,
                     json |-> L(<<D([k \in {"name"} |-> S(<<"A", "b">>)])>>)]] :
            c \in {404, 503}}
    \cup {[kind |-> "response", status_code |-> c,
           body |-> [parses |-> FALSE, text |-> <<"<html>">>]] :
            c \in {200, 503}}

\* search keywords and service names callers ask for
Queries ==
    {S(<<>>), S(<<"a", "b">>), S(<<"A", "b">>), S(<<"A", "B">>), S(<<"c">>),
     S(<<"G", "H">>), S(<<"x">>)}

\* what the network does with the GET of / and of /api/public-stats
InfoNets ==
    TransportFailures
    \cup {[kind |-> "response", status_code |-> c, body |-> b] :
            c \in {200, 404, 503},
            b \in {[parses |-> TRUE,
                    json |-> D([k \in {"name"} |-> S(<<"x402 Bazaar">>)])],
                   [parses |-> FALSE, text |-> Repeat("x", 2)],
                   [parses |-> FALSE, text |-> Repeat("x", HTML_LIMIT + 1)]}}

\* what the network does with the GET of / that test_connection sends
ProbeNets ==
    TransportFailures
    \cup {[kind |-> "response", status_code |-> c,
           body |-> [parses |-> FALSE, text |-> <<"<html>">>]] :
            c \in {200, 204, 400, 401, 402, 404, 429, 500, 503}}

ShortcutNames ==
    {"call_weather_api", "call_search_api", "call_crypto_api", "call_image_api",
     "call_scraper_api"}

\* the one argument of a shortcut
ShortcutArgs == {S(<<"Paris">>), S(<<>>)}

\* what the network does with the request of a shortcut
ShortcutNets ==
    TransportFailures
    \cup {[kind |-> "response", status_code |-> c, body |-> b] :
            c \in {200, 402, 500},
            b \in {[parses |-> TRUE,
                    json |-> D([k \in {"amount"} |-> S(<<"0.05">>)])],
                   [parses |-> TRUE, json |-> L(<<>>)],
                   [parses |-> FALSE, text |-> Repeat("x", 2)]}}

NoCall == [op |-> "none"]

\* invocations of call_api that may be in progress at once on one client
MaxThreads == 2

Threads == 1..MaxThreads

\* a thread that is not inside call_api
IdleThread == [at |-> "idle"]

\* the host holds the result of no plugin hook
NoHook == [op |-> "none"]

---------------------------------------------------------------------------
(* The client and its callers *)

self == [base_url |-> base_url, timeout |-> timeout]

\* lines 30-45: X402Client(base_url, timeout)
Init ==
    /\ \E b \in BaseUrlArgs : base_url = IF Truthy(b) THEN b ELSE S(BASE_URL)
    /\ timeout \in TimeoutArgs
    /\ session_headers =
         [k \in {"User-Agent", "Accept"} |->
            IF k = "User-Agent" THEN S(<<"x402-autogpt-plugin/0.1.0">>)
            ELSE S(<<"application/json">>)]
    /\ pc = "idle"
    /\ call = NoCall
    /\ threads = [t \in Threads |-> IdleThread]
    /\ enabled = TRUE
    /\ command_cache = EmptyDict
    /\ hook = NoHook

\* call_api storing the payment headers on the session
\* (self.session.headers.update(headers)) before it sends the request
M_CallApi_headers_on_session ==
    /\ pc = "idle"
    /\ \E endpoint \in Endpoints, params \in ParamsArgs, method \in Methods,
          payment_tx_hash \in Proofs, net \in Nets :
         LET r == call_api(self, endpoint, params, method, payment_tx_hash, net)
         IN /\ call' = [op |-> "call_api",
                        endpoint |-> endpoint, params |-> params,
                        method |-> method, payment_tx_hash |-> payment_tx_hash,
                        net |-> IF r.sent = <<>> THEN [kind |-> "none"] ELSE net,
                        sent |-> r.sent,
                        outcome |-> r.outcome]
            /\ session_headers' =
                  Merge(session_headers, payment_headers(payment_tx_hash))
    /\ pc' = "returned"
    /\ UNCHANGED <<base_url, timeout>>
    /\ UNCHANGED <<threads, enabled, command_cache, hook>>

\* a caller runs call_api to its end
CallApi ==
    /\ pc = "idle"
    /\ \E endpoint \in Endpoints, params \in ParamsArgs, method \in Methods,
          payment_tx_hash \in Proofs, net \in Nets :
         LET r == call_api(self, endpoint, params, method, payment_tx_hash, net)
         IN call' = [op |-> "call_api",
                     endpoint |-> endpoint, params |-> params,
                     method |-> method, payment_tx_hash |-> payment_tx_hash,
                     net |-> IF r.sent = <<>> THEN [kind |-> "none"] ELSE net,
                     sent |-> r.sent,
                     outcome |-> r.outcome]
    /\ pc' = "returned"
    /\ UNCHANGED <<base_url, timeout, session_headers>>
    /\ UNCHANGED <<threads, enabled, command_cache, hook>>

\* a caller runs discover_services to its end
Discover ==
    /\ pc = "idle"
    /\ \E net \in DiscoveryNets :
         LET r == discover_services(self, net)
         IN call' = [op |-> "discover_services", net |-> net,
                     sent |-> r.sent, outcome |-> r.outcome]
    /\ pc' = "returned"
    /\ UNCHANGED <<base_url, timeout, session_headers>>
    /\ UNCHANGED <<threads, enabled, command_cache, hook>>

\* a caller runs search_services to its end
Search ==
    /\ pc = "idle"
    /\ \E query \in Queries, net \in DiscoveryNets :
         LET r == search_services(self, query, net)
         IN call' = [op |-> "search_services", query |-> query, net |-> net,
                     sent |-> r.sent, outcome |-> r.outcome]
    /\ pc' = "returned"
    /\ UNCHANGED <<base_url, timeout, session_headers>>
    /\ UNCHANGED <<threads, enabled, command_cache, hook>>

\* a caller runs get_service_details to its end
GetServiceDetails ==
    /\ pc = "idle"
    /\ \E service_name \in Queries, net \in DiscoveryNets :
         LET r == get_service_details(self, service_name, net)
         IN call' = [op |-> "get_service_details",
                     service_name |-> service_name, net |-> net,
                     sent |-> r.sent, outcome |-> r.outcome]
    /\ pc' = "returned"
    /\ UNCHANGED <<base_url, timeout, session_headers>>
    /\ UNCHANGED <<threads, enabled, command_cache, hook>>

\* a caller runs get_marketplace_info to its end
GetMarketplaceInfo ==
    /\ pc = "idle"
    /\ \E net \in InfoNets :
         LET r == get_marketplace_info(self, net)
         IN call' = [op |-> "get_marketplace_info", net |-> net,
                     sent |-> r.sent, outcome |-> r.outcome]
    /\ pc' = "returned"
    /\ UNCHANGED <<base_url, timeout, session_headers>>
    /\ UNCHANGED <<threads, enabled, command_cache, hook>>

\* a caller runs get_public_stats to its end
GetPublicStats ==
    /\ pc = "idle"
    /\ \E net \in InfoNets :
         LET r == get_public_stats(self, net)
         IN call' = [op |-> "get_public_stats", net |-> net,
                     sent |-> r.sent, outcome |-> r.outcome]
    /\ pc' = "returned"
    /\ UNCHANGED <<base_url, timeout, session_headers>>
    /\ UNCHANGED <<threads, enabled, command_cache, hook>>

\* a caller runs test_connection to its end
TestConnection ==
    /\ pc = "idle"
    /\ \E net \in ProbeNets :
         LET r == test_connection(self, net)
         IN call' = [op |-> "test_connection", net |-> net,
                     sent |-> r.sent, outcome |-> r.outcome]
    /\ pc' = "returned"
    /\ UNCHANGED <<base_url, timeout, session_headers>>
    /\ UNCHANGED <<threads, enabled, command_cache, hook>>

\* a caller runs one of the convenience shortcuts to its end
Shortcut ==
    /\ pc = "idle"
    /\ \E name \in ShortcutNames, arg \in ShortcutArgs,
          payment_tx_hash \in Proofs, net \in ShortcutNets :
         LET r == shortcut(name, self, arg, payment_tx_hash, net)
         IN call' = [op |-> name, arg |-> arg,
                     payment_tx_hash |-> payment_tx_hash, net |-> net,
                     sent |-> r.sent, outcome |-> r.outcome]
    /\ pc' = "returned"
    /\ UNCHANGED <<base_url, timeout, session_headers>>
    /\ UNCHANGED <<threads, enabled, command_cache, hook>>

\* the caller takes the outcome and is free to call again
Consume ==
    /\ pc = "returned"
    /\ pc' = "idle"
    /\ call' = NoCall
    /\ UNCHANGED <<base_url, timeout, session_headers>>
    /\ UNCHANGED <<threads, enabled, command_cache, hook>>

Next ==
    \/ CallApi
    \/ Discover
    \/ Search
    \/ GetServiceDetails
    \/ GetMarketplaceInfo
    \/ GetPublicStats
    \/ TestConnection
    \/ Shortcut
    \/ Consume

Spec == Init /\ [][Next]_vars

---------------------------------------------------------------------------
(* call_api invocations in progress at once on one client: each runs up to *)
(* its blocking request, waits, and then handles what the network did      *)

ConcurrentProofs == {None, S(<<"0xabc123">>), S(<<"0xdef456">>)}

\* what the network does with the request of one of the invocations
ConcurrentNets ==
    {[kind |-> "timeout"],
     [kind |-> "response", status_code |-> 200,
      body |-> [parses |-> TRUE, json |-> D([k \in {"note"} |-> ServerVal])]],
     [kind |-> "response", status_code |-> 402,
      body |-> [parses |-> TRUE, json |-> D([k \in {"amount"} |-> S(<<"0.05">>)])]],
     [kind |-> "response", status_code |-> 402,
      body |-> [parses |-> TRUE, json |-> D([k \in {"amount"} |-> N(2)])]]}

\* the headers the session puts on the wire: its own, overridden by the call's
wire_headers(session, headers) == Merge(session, headers)

\* Begin storing the payment headers on the shared session
\* (self.session.headers.update(headers)) before it sends the request
M_Begin_headers_on_session(t) ==
    /\ threads[t].at = "idle"
    /\ \E endpoint \in Endpoints, payment_tx_hash \in ConcurrentProofs :
         LET headers == payment_headers(payment_tx_hash)
         IN /\ session_headers' = Merge(session_headers, headers)
            /\ threads' = [threads EXCEPT ![t] =
                  [at |-> "waiting",
                   endpoint |-> endpoint,
                   payment_tx_hash |-> payment_tx_hash,
                   request |-> session_get(build_url(base_url, endpoint), None,
                                           headers, timeout),
                   on_wire |-> wire_headers(Merge(session_headers, headers),
                                            headers)]]
    /\ UNCHANGED <<base_url, timeout, pc, call, enabled, command_cache, hook>>

\* lines 167-185: thread t enters call_api (params None, method "GET"), builds
\* the url and the headers of the call and sends its request
Begin(t) ==
    /\ threads[t].at = "idle"
    /\ \E endpoint \in Endpoints, payment_tx_hash \in ConcurrentProofs :
         LET headers == payment_headers(payment_tx_hash)
         IN threads' = [threads EXCEPT ![t] =
               [at |-> "waiting",
                endpoint |-> endpoint,
                payment_tx_hash |-> payment_tx_hash,
                request |-> session_get(build_url(base_url, endpoint), None,
                                        headers, timeout),
                on_wire |-> wire_headers(session_headers, headers)]]
    /\ UNCHANGED <<base_url, timeout, session_headers, pc, call, enabled,
                   command_cache, hook>>

\* lines 200-305: the request of thread t is answered, or fails, and the
\* thread computes its outcome
Finish(t) ==
    /\ threads[t].at = "waiting"
    /\ \E net \in ConcurrentNets :
         threads' = [threads EXCEPT ![t] =
               [at |-> "done",
                endpoint |-> threads[t].endpoint,
                payment_tx_hash |-> threads[t].payment_tx_hash,
                request |-> threads[t].request,
                on_wire |-> threads[t].on_wire,
                net |-> net,
                outcome |-> exchange(net, timeout, threads[t].payment_tx_hash)]]
    /\ UNCHANGED <<base_url, timeout, session_headers, pc, call, enabled,
                   command_cache, hook>>

\* the caller of thread t takes the outcome
Release(t) ==
    /\ threads[t].at = "done"
    /\ threads' = [threads EXCEPT ![t] = IdleThread]
    /\ UNCHANGED <<base_url, timeout, session_headers, pc, call, enabled,
                   command_cache, hook>>

NextConcurrent ==
    \E t \in Threads :
        \/ Begin(t)
        \/ Finish(t)
        \/ Release(t)

SpecConcurrent == Init /\ [][NextConcurrent]_vars

---------------------------------------------------------------------------
(* X402BazaarPlugin (src/src/x402_bazaar/__init__.py): pre_command with    *)
(* its handlers, on_response and the command cache.  What the handlers     *)
(* print is left out; what on_response prints is kept.                     *)

\* line 101: command.startswith("x402_"); the prefix is one piece of the str
starts_with_x402(command) == command.s # <<>> /\ command.s[1] = "x402_"

\* line 102: command.replace("x402_", ""), which removes every occurrence
subcommand_of(command) == SelectSeq(command.s, LAMBDA piece : piece # "x402_")

UNKNOWN == S(<<"unknown">>)

\* the cache entry _handle_call_api writes (lines 225-229)
call_info_of(endpoint, result) ==
    D([endpoint |-> endpoint,
       cost |-> Get(result, "cost_usdc", UNKNOWN),
       payment_status |-> Get(result, "payment_status", UNKNOWN)])

\* _handle_call_api keeping an entry that is already cached (setdefault)
M_handle_call_api_keep_first(client, cache, endpoint, params, method, net) ==
    LET r == call_api(client, endpoint, params, method, None, net)
    IN [sent |-> r.sent,
        result |-> r.outcome,
        cache |-> IF r.outcome.kind = "raise" THEN cache
                  ELSE Merge([k \in {"x402_api_call"} |->
                                call_info_of(endpoint, r.outcome.value)],
                             cache)]

\* lines 213-238: the requests sent, what call_api gave, and the cache after;
\* an exception of call_api is caught before the cache is written
handle_call_api(client, cache, endpoint, params, method, net) ==
    LET r == call_api(client, endpoint, params, method, None, net)
    IN [sent |-> r.sent,
        result |-> r.outcome,
        cache |-> IF r.outcome.kind = "raise" THEN cache
                  ELSE Merge(cache,
                             [k \in {"x402_api_call"} |->
                                call_info_of(endpoint, r.outcome.value)])]

\* lines 176-194
handle_list_services(client, cache, net) ==
    LET r == discover_services(client, net)
    IN [sent |-> r.sent, result |-> r.outcome, cache |-> cache]

\* lines 196-211
handle_search_services(client, cache, query, net) ==
    LET r == search_services(client, query, net)
    IN [sent |-> r.sent, result |-> r.outcome, cache |-> cache]

\* lines 240-248
handle_marketplace_info(client, cache, net) ==
    LET r == get_marketplace_info(client, net)
    IN [sent |-> r.sent, result |-> r.outcome, cache |-> cache]

\* the handler pre_command dispatches to (lines 98-115), "none" when it
\* dispatches to none
handler_of(is_enabled, command) ==
    IF ~is_enabled \/ ~starts_with_x402(command) THEN "none"
    ELSE LET subcommand == subcommand_of(command)
         IN CASE subcommand = <<"list">>   -> "list"
              [] subcommand = <<"search">> -> "search"
              [] subcommand = <<"call">>   -> "call"
              [] subcommand = <<"info">>   -> "info"
              [] OTHER                     -> "none"

\* lines 96-117
pre_command(client, is_enabled, cache, command, arguments, net) ==
    LET handler == handler_of(is_enabled, command)
        done ==
          CASE handler = "list" -> handle_list_services(client, cache, net)
            [] handler = "search" ->
                 handle_search_services(client, cache,
                                        Get(arguments, "query", S(<<>>)), net)
            [] handler = "call" ->
                 handle_call_api(client, cache,
                                 Get(arguments, "endpoint", S(<<>>)),
                                 Get(arguments, "params", D(EmptyDict)),
                                 Get(arguments, "method", S(<<"G", "E", "T">>)),
                                 net)
            [] handler = "info" -> handle_marketplace_info(client, cache, net)
            [] OTHER -> [sent |-> <<>>, result |-> [kind |-> "none"],
                         cache |-> cache]
    IN [returned |-> command, handler |-> handler, sent |-> done.sent,
        result |-> done.result, cache |-> done.cache]

\* on_response printing the entry and leaving it in the cache
M_on_response_keep_cache(is_enabled, cache, response) ==
    LET reports == is_enabled /\ DOMAIN cache # {}
    IN [returned |-> response,
        printed |->
          IF reports /\ "x402_api_call" \in DOMAIN cache
          THEN LET call_info == cache["x402_api_call"]
               IN <<<<"[x402 Bazaar] API call completed:">>,
                    <<"  Endpoint: ">> \o Format(Get(call_info, "endpoint", UNKNOWN)),
                    <<"  Cost: ">> \o Format(Get(call_info, "cost", UNKNOWN))
                        \o <<" USDC">>,
                    <<"  Payment: ">>
                        \o Format(Get(call_info, "payment_status", UNKNOWN))>>
          ELSE <<>>,
        cache |-> cache]

\* lines 57-70: the value returned, the lines printed and the cache after
on_response(is_enabled, cache, response) ==
    LET reports == is_enabled /\ DOMAIN cache # {}
    IN [returned |-> response,
        printed |->
          IF reports /\ "x402_api_call" \in DOMAIN cache
          THEN LET call_info == cache["x402_api_call"]
               IN <<<<"[x402 Bazaar] API call completed:">>,
                    <<"  Endpoint: ">> \o Format(Get(call_info, "endpoint", UNKNOWN)),
                    <<"  Cost: ">> \o Format(Get(call_info, "cost", UNKNOWN))
                        \o <<" USDC">>,
                    <<"  Payment: ">>
                        \o Format(Get(call_info, "payment_status", UNKNOWN))>>
          ELSE <<>>,
        cache |-> IF reports THEN EmptyDict ELSE cache]

\* commands the host passes to pre_command
Commands ==
    {S(<<"x402_", "call">>), S(<<"x402_", "list">>), S(<<"x402_", "search">>),
     S(<<"x402_", "info">>), S(<<"x402_", "x402_", "call">>),
     S(<<"x402_", "pay">>), S(<<"call">>)}

\* the arguments of a command
ArgumentDicts ==
    {D(EmptyDict),
     D([endpoint |-> S(<<"/api/weather">>)]),
     D([endpoint |-> S(<<"/api/test">>),
        params |-> D([city |-> S(<<"Paris">>)]),
        method |-> S(<<"p", "o", "s", "t">>)]),
     D([endpoint |-> S(<<"/api/weather">>), method |-> S(<<"P", "U", "T">>)]),
     D([endpoint |-> S(<<"/api/weather">>),
        payment_tx_hash |-> S(<<"0xabc123">>)]),
     D([query |-> S(<<"a", "b">>)])}

\* what the network does with the request of _handle_call_api
PluginCallNets ==
    TransportFailures
    \cup {[kind |-> "response", status_code |-> c,
           body |-> [parses |-> FALSE, text |-> Repeat("x", 2)]] :
            c \in {200, 402, 404}}
    \cup {[kind |-> "response", status_code |-> 402,
           body |-> [parses |-> TRUE, json |-> j]] :
            j \in {D([k \in {"amount"} |-> S(<<"0.05">>)]),
                   D([k \in {"required_payment"} |-> N(2)]),
                   D(EmptyDict), L(<<>>)}}
    \cup {[kind |-> "response", status_code |-> c,
           body |-> [parses |-> TRUE, json |-> D([k \in {"note"} |-> ServerVal])]] :
            c \in {200, 400, 500}}

\* what the network does with the discovery of a list or search command
PluginDiscoveryNets ==
    {[kind |-> "timeout"],
     [kind |-> "response", status_code |-> 503,
      body |-> [parses |-> FALSE, text |-> <<"<html>">>]],
     [kind |-> "response", status_code |-> 200,
      body |-> [parses |-> TRUE,
                json |-> L(<<D([k \in {"name"} |-> S(<<"A", "b">>)])>>)]]}

\* what the network does with the request the command's handler sends
NetsOf(handler) ==
    CASE handler = "call" -> PluginCallNets
      [] handler \in {"list", "search"} -> PluginDiscoveryNets
      [] handler = "info" -> InfoNets
      [] OTHER -> {[kind |-> "none"]}

\* responses the host passes to on_response
ResponseTexts == {S(<<"weather data">>), S(<<>>)}

\* the cache with a key that is not the plugin's own
OtherCache == [k \in {"other_key"} |-> D(EmptyDict)]

\* lines 39-51: the plugin constructs its client with the defaults
InitPlugin ==
    /\ base_url = S(BASE_URL)
    /\ timeout = TIMEOUT
    /\ session_headers =
         [k \in {"User-Agent", "Accept"} |->
            IF k = "User-Agent" THEN S(<<"x402-autogpt-plugin/0.1.0">>)
            ELSE S(<<"application/json">>)]
    /\ pc = "idle"
    /\ call = NoCall
    /\ threads = [t \in Threads |-> IdleThread]
    /\ enabled = TRUE
    /\ command_cache = EmptyDict
    /\ hook = NoHook

\* the host runs pre_command to its end
PreCommand ==
    /\ hook = NoHook
    /\ \E command \in Commands, arguments \in ArgumentDicts :
         \E net \in NetsOf(handler_of(enabled, command)) :
            LET r == pre_command(self, enabled, command_cache, command,
                                 arguments, net)
            IN /\ hook' = [op |-> "pre_command", command |-> command,
                           arguments |-> arguments, net |-> net,
                           was_enabled |-> enabled,
                           cache_before |-> command_cache,
                           handler |-> r.handler, sent |-> r.sent,
                           result |-> r.result, returned |-> r.returned]
               /\ command_cache' = r.cache
    /\ UNCHANGED <<base_url, timeout, session_headers, pc, call, threads,
                   enabled>>

\* the host runs on_response to its end
OnResponse ==
    /\ hook = NoHook
    /\ \E response \in ResponseTexts :
         LET r == on_response(enabled, command_cache, response)
         IN /\ hook' = [op |-> "on_response", response |-> response,
                        was_enabled |-> enabled,
                        cache_before |-> command_cache,
                        printed |-> r.printed, returned |-> r.returned]
            /\ command_cache' = r.cache
    /\ UNCHANGED <<base_url, timeout, session_headers, pc, call, threads,
                   enabled>>

\* the host switches the plugin off or on (plugin._enabled = ...)
HostSetsEnabled ==
    /\ hook = NoHook
    /\ enabled' = ~enabled
    /\ UNCHANGED <<base_url, timeout, session_headers, pc, call, threads,
                   command_cache, hook>>

\* the host replaces the cache (plugin._command_cache = {"other_key": {}})
HostSetsCache ==
    /\ hook = NoHook
    /\ command_cache # OtherCache
    /\ command_cache' = OtherCache
    /\ UNCHANGED <<base_url, timeout, session_headers, pc, call, threads,
                   enabled, hook>>

\* the host takes what the hook returned and goes on
HostGoesOn ==
    /\ hook # NoHook
    /\ hook' = NoHook
    /\ UNCHANGED <<base_url, timeout, session_headers, pc, call, threads,
                   enabled, command_cache>>

NextPlugin ==
    \/ PreCommand
    \/ OnResponse
    \/ HostSetsEnabled
    \/ HostSetsCache
    \/ HostGoesOn

SpecPlugin == InitPlugin /\ [][NextPlugin]_vars

---------------------------------------------------------------------------
(* Vocabulary of the properties *)

\* a call_api call has returned or raised, and the caller holds its outcome
IsCall == pc = "returned" /\ call.op = "call_api"

\* the call's one request was answered with status c
Responded(c) ==
    IsCall /\ call.net.kind = "response" /\ call.net.status_code = c

HasValue == call.outcome.kind = "return" /\ call.outcome.value.t = "dict"

Val == call.outcome.value.d

\* a proof was supplied: the argument is neither None nor the empty string
ProofSupplied ==
    call.payment_tx_hash # None /\ call.payment_tx_hash # S(<<>>)

\* the letters of GET and POST, lower and upper case
LetterPairs ==
    {<<"g", "G">>, <<"e", "E">>, <<"t", "T">>, <<"p", "P">>, <<"o", "O">>,
     <<"s", "S">>}

SameLetter(c, u) == c = u \/ <<c, u>> \in LetterPairs

\* m is the word w (given in capitals) in some letter case
IsWord(m, w) ==
    Len(m) = Len(w) /\ \A i \in 1..Len(w) : SameLetter(m[i], w[i])

MethodIsGet == IsWord(call.method.s, <<"G", "E", "T">>)
MethodIsPost == IsWord(call.method.s, <<"P", "O", "S", "T">>)

IsSuccess(v) ==
    /\ DOMAIN v = {"success", "data", "payment_status"}
    /\ v.success = B(TRUE)
    /\ v.payment_status \in {S(<<"free">>), S(<<"completed">>)}

IsPaymentRequired(v) ==
    /\ DOMAIN v = {"success", "payment_required", "payment_details", "cost_usdc"}
    /\ v.success = B(FALSE)
    /\ v.payment_required = B(TRUE)

IsFailure(v) ==
    /\ DOMAIN v = {"success", "error"}
    /\ v.success = B(FALSE)

VariantCount(v) ==
    Cardinality({i \in 1..3 : \/ i = 1 /\ IsSuccess(v)
                              \/ i = 2 /\ IsPaymentRequired(v)
                              \/ i = 3 /\ IsFailure(v)})

---------------------------------------------------------------------------
(* C1: for every endpoint, params, method, proof and every reply (any     *)
(* status; body unparseable or any JSON value) or transport failure,       *)
(* call_api returns a Success, PaymentRequired or Failure value and never  *)
(* raises.                                                                 *)
C1_NeverRaises ==
    IsCall => HasValue /\ VariantCount(Val) = 1

(* C2: every value call_api returns is exactly one of Success (success     *)
(* true, data, payment_status free or completed, no error, no              *)
(* payment_required), PaymentRequired (success false, payment_required     *)
(* true, payment_details, cost_usdc, no data) and Failure (success false,  *)
(* error, no payment_required, no data); none is both successful and       *)
(* payment-required.                                                       *)
C2_ExactlyOneVariant ==
    (IsCall /\ call.outcome.kind = "return") =>
        /\ call.outcome.value.t = "dict"
        /\ VariantCount(Val) = 1
        /\ ~(Val.success = B(TRUE) /\ "payment_required" \in DOMAIN Val)
        /\ Val.success = B(TRUE) => DOMAIN Val \cap {"error", "payment_required",
                                     "payment_details", "cost_usdc"} = {}
        /\ Val.success = B(FALSE) => "data" \notin DOMAIN Val

C2_Witness ==
    IsCall /\ HasValue /\ IsPaymentRequired(Val)

(* C3: a method that is neither GET nor POST in any letter case yields the *)
(* Failure "Unsupported HTTP method: <method as given>" and no network     *)
(* request; GET and POST in any letter case are accepted (a request is     *)
(* sent and the outcome is not that Failure).                              *)
C3_UnsupportedMethod ==
    IsCall =>
        IF MethodIsGet \/ MethodIsPost
        THEN /\ call.sent # <<>>
             /\ ~(/\ HasValue
                  /\ "error" \in DOMAIN Val
                  /\ Val.error.t = "str"
                  /\ Contains(Val.error.s, <<"Unsupported HTTP method: ">>))
        ELSE /\ call.sent = <<>>
             /\ call.outcome =
                  [kind |-> "return",
                   value |-> D([success |-> B(FALSE),
                                error |-> S(<<"Unsupported HTTP method: ">>
                                            \o call.method.s)])]

C3_Witness ==
    /\ IsCall
    /\ call.method = S(<<"d", "e", "l", "e", "t", "e">>)
    /\ call.sent = <<>>
    /\ HasValue /\ IsFailure(Val)

C3_WitnessAccepted ==
    IsCall /\ call.method = S(<<"p", "O", "s", "T">>) /\ Len(call.sent) = 1

(* C4: a call whose method is GET or POST issues exactly one request,      *)
(* whatever the outcome (no retry, with or without a proof), to            *)
(* base_url + endpoint with the configured timeout, params as query        *)
(* parameters for GET and as the JSON body for POST.                       *)
C4_OneRequest ==
    (IsCall /\ (MethodIsGet \/ MethodIsPost)) =>
        /\ Len(call.sent) = 1
        /\ call.sent[1].url = base_url.s \o call.endpoint.s
        /\ call.sent[1].timeout = timeout
        /\ MethodIsGet =>
             /\ call.sent[1].verb = "GET"
             /\ "params" \in DOMAIN call.sent[1]
             /\ "json" \notin DOMAIN call.sent[1]
             /\ call.sent[1].params = call.params
        /\ MethodIsPost =>
             /\ call.sent[1].verb = "POST"
             /\ "json" \in DOMAIN call.sent[1]
             /\ "params" \notin DOMAIN call.sent[1]
             /\ call.sent[1].json = call.params

C4_Witness ==
    /\ Responded(402) /\ ProofSupplied /\ MethodIsPost
    /\ call.params # None
    /\ Len(call.sent) = 1
    /\ base_url # S(BASE_URL) /\ timeout # TIMEOUT

(* C5: for a response with status 200 call_api returns Success with data   *)
(* the parsed body when it parses and {text: raw text} when it does not;   *)
(* payment_status is "completed" if a proof was supplied on this call      *)
(* (a non-empty one: the empty string counts as none) and "free"           *)
(* otherwise, whatever the body.                                           *)
C5_Status200 ==
    Responded(200) =>
        /\ HasValue
        /\ DOMAIN Val = {"success", "data", "payment_status"}
        /\ Val.success = B(TRUE)
        /\ call.net.body.parses => Val.data = call.net.body.json
        /\ ~call.net.body.parses =>
             /\ Val.data.t = "dict"
             /\ DOMAIN Val.data.d = {"text"}
             /\ Val.data.d.text = S(call.net.body.text)
        /\ Val.payment_status =
             IF ProofSupplied THEN S(<<"completed">>) ELSE S(<<"free">>)

C5_Witness ==
    /\ Responded(200) /\ ProofSupplied /\ ~call.net.body.parses
    /\ Len(call.net.body.text) > TEXT_LIMIT
    /\ HasValue /\ Val.payment_status = S(<<"completed">>)

(* C6: with a proof supplied (non-empty) the request carries exactly the   *)
(* two per-call headers X-Payment-TxHash = the proof and X-Payment-Chain = *)
(* the configured chain "base", whatever the server replies; without a     *)
(* proof the per-call headers are empty.                                   *)
C6_PaymentHeaders ==
    (IsCall /\ call.sent # <<>>) =>
        \A i \in 1..Len(call.sent) :
            IF ProofSupplied
            THEN /\ DOMAIN call.sent[i].headers =
                      {"X-Payment-TxHash", "X-Payment-Chain"}
                 /\ call.sent[i].headers["X-Payment-TxHash"] = call.payment_tx_hash
                 /\ call.sent[i].headers["X-Payment-Chain"] =
                      S(<<"b", "a", "s", "e">>)
            ELSE DOMAIN call.sent[i].headers = {}

C6_Witness ==
    /\ Responded(402) /\ ProofSupplied
    /\ call.net.body.parses /\ call.net.body.json.t = "dict"
    /\ "payment_chain" \in DOMAIN call.net.body.json.d
    /\ DOMAIN call.sent[1].headers = {"X-Payment-TxHash", "X-Payment-Chain"}

---------------------------------------------------------------------------
(* The 402 path *)

Body == call.net.body

\* the keys of the 402 body (a body that is no JSON object has none)
BodyKeysOf ==
    IF Body.parses /\ Body.json.t = "dict" THEN DOMAIN Body.json.d ELSE {}

\* the cost the body's keys give: amount, else required_payment, else "unknown"
ExpectedCost ==
    IF "amount" \in BodyKeysOf THEN Body.json.d["amount"]
    ELSE IF "required_payment" \in BodyKeysOf THEN Body.json.d["required_payment"]
    ELSE S(<<"unknown">>)

SynthesizedKeys ==
    {"message", "instructions", "payment_address", "payment_chain",
     "payment_token", "payment_amount"}

Details == Val.payment_details.d

\* the body is a JSON object or does not parse: .get is never called on a non-dict
BodyIsObjectOrText == ~Body.parses \/ Body.json.t = "dict"

(* C7: for every 402 response cost_usdc is the body's amount when that key *)
(* is present (also when required_payment is present too), else its        *)
(* required_payment when present, else "unknown"; payment_amount and the   *)
(* cost in message equal the returned cost_usdc.                           *)
C7_CostResolution ==
    Responded(402) =>
        /\ HasValue /\ IsPaymentRequired(Val)
        /\ Val.cost_usdc = ExpectedCost
        /\ Val.payment_details.t = "dict"
        /\ "payment_amount" \in DOMAIN Details
        /\ Details["payment_amount"] = Val.cost_usdc
        /\ "message" \in DOMAIN Details
        /\ Details["message"] =
             S(<<"Payment required: ">> \o Format(Val.cost_usdc) \o <<" USDC">>)

\* the statement of C7 on the 402 responses whose body is a JSON object or
\* does not parse
C7_CostResolutionOnObjects ==
    (Responded(402) /\ BodyIsObjectOrText) => C7_CostResolution

(* C8: for every 402 response with parsed body B, payment_details is the   *)
(* shallow merge of B with the six client-synthesized fields: B's other    *)
(* keys keep B's values, and the six keys carry the client's values even   *)
(* when B has them.                                                        *)
C8_ShallowMerge ==
    (Responded(402) /\ Body.parses) =>
        /\ HasValue /\ IsPaymentRequired(Val)
        /\ Val.payment_details.t = "dict"
        /\ DOMAIN Details = BodyKeysOf \cup SynthesizedKeys
        /\ \A k \in BodyKeysOf \ SynthesizedKeys : Details[k] = Body.json.d[k]
        /\ Details["payment_address"] = S(PAYMENT_ADDRESS)
        /\ Details["payment_chain"] = S(PAYMENT_CHAIN)
        /\ Details["payment_token"] = S(<<"USDC">>)
        /\ Details["payment_amount"] = Val.cost_usdc
        /\ Details["message"] =
             S(<<"Payment required: ">> \o Format(Val.cost_usdc) \o <<" USDC">>)
        /\ Details["instructions"].t = "list"
        /\ Len(Details["instructions"].l) = 3

\* the statement of C8 on the parsed bodies that are JSON objects
C8_ShallowMergeOnObjects ==
    (Responded(402) /\ Body.parses /\ Body.json.t = "dict") => C8_ShallowMerge

(* C9: for every 402 response, whatever the body, instructions is a list   *)
(* of exactly 3 strings, the first containing the resolved cost, the chain *)
(* upper-cased and the payment address, and payment_address,               *)
(* payment_chain, payment_token are the client's constants.                *)
C9_FixedInstructions ==
    Responded(402) =>
        /\ HasValue /\ IsPaymentRequired(Val)
        /\ Val.payment_details.t = "dict"
        /\ SynthesizedKeys \subseteq DOMAIN Details
        /\ Details["instructions"].t = "list"
        /\ Len(Details["instructions"].l) = 3
        /\ \A i \in 1..3 : Details["instructions"].l[i].t = "str"
        /\ Contains(Details["instructions"].l[1].s, Format(Val.cost_usdc))
        /\ Contains(Details["instructions"].l[1].s, <<"B", "A", "S", "E">>)
        /\ Contains(Details["instructions"].l[1].s, PAYMENT_ADDRESS)
        /\ Details["payment_address"] = S(PAYMENT_ADDRESS)
        /\ Details["payment_chain"] = S(<<"b", "a", "s", "e">>)
        /\ Details["payment_token"] = S(<<"USDC">>)

\* the statement of C9 on the 402 responses whose body is a JSON object or
\* does not parse
C9_FixedInstructionsOnObjects ==
    (Responded(402) /\ BodyIsObjectOrText) => C9_FixedInstructions

(* C10: a 402 response whose body does not parse still yields              *)
(* PaymentRequired: cost_usdc is "unknown", address and payment_address    *)
(* are the configured payment address, chain and payment_chain the         *)
(* configured chain.                                                       *)
C10_Fallback ==
    (Responded(402) /\ ~Body.parses) =>
        /\ HasValue /\ IsPaymentRequired(Val)
        /\ Val.cost_usdc = S(<<"unknown">>)
        /\ Val.payment_details.t = "dict"
        /\ {"address", "payment_address", "chain", "payment_chain"}
             \subseteq DOMAIN Details
        /\ Details["address"] = S(PAYMENT_ADDRESS)
        /\ Details["payment_address"] = S(PAYMENT_ADDRESS)
        /\ Details["chain"] = S(PAYMENT_CHAIN)
        /\ Details["payment_chain"] = S(PAYMENT_CHAIN)

C10_Witness ==
    /\ Responded(402) /\ ~Body.parses /\ Body.text # <<>>
    /\ HasValue /\ IsPaymentRequired(Val)
    /\ Details["address"] = S(PAYMENT_ADDRESS)

---------------------------------------------------------------------------
(* The error statuses and the transport failures *)

\* the first n characters of s, one by one
FirstChars(s, n) ==
    [i \in 1..(IF Len(s) < n THEN Len(s) ELSE n) |-> s[i]]

\* the Failure value with message m
FailureWith(m) ==
    [kind |-> "return", value |-> D([success |-> B(FALSE), error |-> m])]

(* C11: for every response with status 400 call_api returns Failure whose  *)
(* message is the body's error field when the body parses and has it,      *)
(* "Bad request" when it parses without an error field, and the whole raw  *)
(* text when it does not parse.                                            *)
C11_Status400 ==
    Responded(400) =>
        call.outcome =
            FailureWith(IF ~Body.parses THEN S(Body.text)
                        ELSE IF "error" \in BodyKeysOf THEN Body.json.d["error"]
                        ELSE S(<<"Bad request">>))

\* the statement of C11 on the 400 responses whose body is a JSON object or
\* does not parse
C11_Status400OnObjects ==
    (Responded(400) /\ BodyIsObjectOrText) => C11_Status400

(* C12: status 429 yields Failure "Rate limit exceeded. Please try again   *)
(* later." and status 500 Failure "Server error. Please try again later.", *)
(* whatever the body (parseable or not, with or without an error field).   *)
C12_FixedMessages ==
    /\ Responded(429) =>
         call.outcome =
            FailureWith(S(<<"Rate limit exceeded. Please try again later.">>))
    /\ Responded(500) =>
         call.outcome =
            FailureWith(S(<<"Server error. Please try again later.">>))

C12_Witness ==
    /\ Responded(429)
    /\ "error" \in BodyKeysOf
    /\ HasValue /\ IsFailure(Val)
    /\ Val.error # Body.json.d["error"]

(* C13: for every status other than 200, 402, 400, 429 and 500 call_api    *)
(* returns Failure whose message is the body's error field when the body   *)
(* parses and has it, "HTTP <code>" when it parses without one, and        *)
(* "HTTP <code>: " followed by the first 200 characters of the raw text    *)
(* when it does not parse (the prefix is outside the 200).                 *)
C13_OtherStatus ==
    (IsCall /\ call.net.kind = "response"
            /\ call.net.status_code \notin {200, 402, 400, 429, 500}) =>
        call.outcome =
            FailureWith(
                IF ~Body.parses
                THEN S(<<"HTTP ", ToString(call.net.status_code), ": ">>
                       \o FirstChars(Body.text, 200))
                ELSE IF "error" \in BodyKeysOf THEN Body.json.d["error"]
                ELSE S(<<"HTTP ", ToString(call.net.status_code)>>))

\* the statement of C13 on the responses whose body is a JSON object or does
\* not parse
C13_OtherStatusOnObjects ==
    (IsCall /\ call.net.kind = "response" /\ BodyIsObjectOrText)
        => C13_OtherStatus

---------------------------------------------------------------------------
(* Discovery, search and lookup *)

\* the operation o has returned or raised, and the caller holds its outcome
IsOp(o) == pc = "returned" /\ call.op = o

\* the one GET of the operation failed: no response, or a 4xx/5xx status
GetFailed ==
    \/ call.net.kind # "response"
    \/ call.net.status_code \in 400..599

\* the exception the failed GET stands for
FailureOfGet ==
    IF call.net.kind = "timeout" THEN "Timeout"
    ELSE IF call.net.kind = "error" THEN "RequestException"
    ELSE "HTTPError"

\* the discovery of the operation answered with a list of services
Discovered ==
    /\ call.net.kind = "response" /\ call.net.status_code = 200
    /\ call.net.body.parses /\ call.net.body.json.t = "list"

DiscoveredServices == call.net.body.json.l

\* the two cases of each letter
CasePairs ==
    {{"a", "A"}, {"b", "B"}, {"c", "C"}, {"d", "D"}, {"e", "E"}, {"f", "F"},
     {"g", "G"}, {"h", "H"}}

SameIgnoringCase(c, u) == c = u \/ {c, u} \in CasePairs

\* s and q are equal, compared case-insensitively
EqualIgnoringCase(s, q) ==
    Len(s) = Len(q) /\ \A i \in 1..Len(q) : SameIgnoringCase(s[i], q[i])

\* q is a substring of s, compared case-insensitively
ContainsIgnoringCase(s, q) ==
    \E i \in 0..(Len(s) - Len(q)) :
        \A j \in 1..Len(q) : SameIgnoringCase(s[i + j], q[j])

\* a service's name and description (the empty string when it has none)
NameOf(svc) == IF "name" \in DOMAIN svc.d THEN svc.d["name"].s ELSE <<>>

DescriptionOf(svc) ==
    IF "description" \in DOMAIN svc.d THEN svc.d["description"].s ELSE <<>>

InNameOrDescription(svc, q) ==
    \/ ContainsIgnoringCase(NameOf(svc), q)
    \/ ContainsIgnoringCase(DescriptionOf(svc), q)

InSomeTag(svc, q) ==
    /\ "tags" \in DOMAIN svc.d
    /\ \E i \in 1..Len(svc.d["tags"].l) :
          ContainsIgnoringCase(svc.d["tags"].l[i].s, q)

(* C15: discover_services, search_services, get_marketplace_info and       *)
(* get_public_stats return nothing when the GET raises or is answered with *)
(* an error status: the exception (that of the transport, or the HTTPError *)
(* of the status) reaches the caller, also through search_services.        *)
C15_FailuresPropagate ==
    (/\ pc = "returned"
     /\ call.op \in {"discover_services", "search_services",
                     "get_marketplace_info", "get_public_stats"}
     /\ GetFailed) =>
        call.outcome = [kind |-> "raise", exc |-> FailureOfGet]

C15_Witness ==
    /\ IsOp("search_services")
    /\ call.net.kind = "response" /\ call.net.status_code = 503
    /\ call.net.body.parses
    /\ call.outcome.kind = "raise"

(* C16: search_services(q) performs exactly one discovery and returns      *)
(* exactly the discovered services in which q, compared case-              *)
(* insensitively, is a substring of the name, of the description or of     *)
(* some tag, in the order of the discovery response.                       *)
C16_SearchFilter ==
    IsOp("search_services") =>
        /\ Len(call.sent) = 1
        /\ Discovered =>
             call.outcome =
                [kind |-> "return",
                 value |-> L(SelectSeq(DiscoveredServices,
                        LAMBDA svc : \/ InNameOrDescription(svc, call.query.s)
                                     \/ InSomeTag(svc, call.query.s)))]

C16_Witness ==
    /\ IsOp("search_services") /\ Discovered
    /\ call.query = S(<<"A", "B">>)
    /\ Len(DiscoveredServices) = 2
    /\ call.outcome.kind = "return"
    /\ Len(call.outcome.value.l) = 1
    /\ call.outcome.value.l[1] = DiscoveredServices[2]

(* C17: search_services("") returns every discovered service in the        *)
(* discovery order, whatever the response, services without name,          *)
(* description or tags included.                                           *)
C17_EmptyQueryReturnsAll ==
    (IsOp("search_services") /\ Discovered /\ call.query = S(<<>>)) =>
        call.outcome = [kind |-> "return", value |-> L(DiscoveredServices)]

C17_Witness ==
    /\ IsOp("search_services") /\ Discovered /\ call.query = S(<<>>)
    /\ Len(DiscoveredServices) = 2
    /\ DOMAIN DiscoveredServices[1].d = {}
    /\ DOMAIN DiscoveredServices[2].d = {"tags"}
    /\ call.outcome.kind = "return"

PlacesNamed(n) ==
    {i \in 1..Len(DiscoveredServices) :
        EqualIgnoringCase(NameOf(DiscoveredServices[i]), n)}

\* the least of a non-empty set of places
Least(places) == CHOOSE i \in places : \A j \in places : i <= j

(* C19: get_service_details(name) performs one discovery and returns the   *)
(* first discovered service whose name equals name case-insensitively (a   *)
(* service without a name counting as named ""), None when there is none,  *)
(* and None, without raising, when the discovery raises.                   *)
C19_FirstMatchOrNone ==
    IsOp("get_service_details") =>
        /\ Len(call.sent) = 1
        /\ call.outcome.kind = "return"
        /\ ~Discovered => call.outcome.value = None
        /\ Discovered =>
             call.outcome.value =
                IF PlacesNamed(call.service_name.s) = {} THEN None
                ELSE DiscoveredServices[Least(PlacesNamed(call.service_name.s))]

C19_Witness ==
    /\ IsOp("get_service_details") /\ Discovered
    /\ call.service_name = S(<<"A", "B">>)
    /\ PlacesNamed(call.service_name.s) = {2}
    /\ call.outcome.value = DiscoveredServices[2]

\* the lookup asks for the name, as written, of a discovered service
AsksForDiscoveredName ==
    /\ IsOp("get_service_details") /\ Discovered
    /\ \E i \in 1..Len(DiscoveredServices) :
          /\ "name" \in DOMAIN DiscoveredServices[i].d
          /\ DiscoveredServices[i].d["name"] = call.service_name

---------------------------------------------------------------------------
(* The connectivity probe, silent failures and the shortcuts *)

(* C21: test_connection issues one GET to the root path and returns True   *)
(* exactly when the response status is 200, 402 or 400; for every other    *)
(* status and for every transport exception it returns False; it never     *)
(* raises.                                                                 *)
C21_TestConnection ==
    IsOp("test_connection") =>
        /\ call.sent = <<[verb |-> "GET", url |-> base_url.s \o <<"/">>,
                          timeout |-> timeout]>>
        /\ call.outcome.kind = "return"
        /\ call.outcome.value =
             B(/\ call.net.kind = "response"
               /\ \/ call.net.status_code = 200
                  \/ call.net.status_code = 402
                  \/ call.net.status_code = 400)

C21_Witness ==
    /\ IsOp("test_connection")
    /\ call.net.kind = "response" /\ call.net.status_code = 404
    /\ call.outcome = [kind |-> "return", value |-> B(FALSE)]

\* the request of the operation met a transport failure or an error status
\* (402, the payment request, is not counted as a failure of call_api)
TransportOrHttpFailure ==
    \/ call.net.kind \in {"timeout", "error"}
    \/ /\ call.net.kind = "response"
       /\ call.net.status_code \in 400..599
       /\ ~(call.op = "call_api" /\ call.net.status_code = 402)

\* the failure is visible to the caller: raised, or returned as a Failure
FailureIsVisible ==
    \/ call.outcome.kind = "raise"
    \/ /\ call.outcome.value.t = "dict"
       /\ IsFailure(call.outcome.value.d)
       /\ call.outcome.value.d.error.t = "str"

(* C22 as stated: only test_connection drops an error silently; in         *)
(* call_api, discover_services, search_services, get_service_details,      *)
(* get_marketplace_info and get_public_stats a transport or HTTP failure   *)
(* is returned as a Failure carrying an error message or raised.           *)
C22_OnlyProbeIsSilent ==
    (/\ pc = "returned"
     /\ call.op \in {"call_api", "discover_services", "search_services",
                     "get_service_details", "get_marketplace_info",
                     "get_public_stats"}
     /\ TransportOrHttpFailure) => FailureIsVisible

(* C22 as amended: only test_connection and get_service_details drop an    *)
(* error silently (giving False and None); in call_api, discover_services, *)
(* search_services, get_marketplace_info and get_public_stats a transport  *)
(* or HTTP failure is returned as a Failure carrying an error message or   *)
(* raised.                                                                 *)
C22_ProbeAndLookupAreSilent ==
    (/\ pc = "returned"
     /\ call.op \in {"call_api", "discover_services", "search_services",
                     "get_marketplace_info", "get_public_stats"}
     /\ TransportOrHttpFailure) => FailureIsVisible

C22_Witness ==
    /\ IsOp("get_marketplace_info")
    /\ call.net.kind = "response" /\ call.net.status_code = 503
    /\ ~call.net.body.parses
    /\ call.outcome = [kind |-> "raise", exc |-> "HTTPError"]

\* endpoint, verb and parameter key of each shortcut
ShortcutTable ==
    [call_weather_api |-> [endpoint |-> <<"/api/weather">>, verb |-> "GET", key |-> "city"],
     call_search_api  |-> [endpoint |-> <<"/api/search">>, verb |-> "GET", key |-> "q"],
     call_crypto_api  |-> [endpoint |-> <<"/api/crypto">>, verb |-> "GET", key |-> "symbol"],
     call_image_api   |-> [endpoint |-> <<"/api/image">>, verb |-> "POST", key |-> "prompt"],
     call_scraper_api |-> [endpoint |-> <<"/api/scrape">>, verb |-> "GET", key |-> "url"]]

IsShortcut == pc = "returned" /\ call.op \in DOMAIN ShortcutTable

\* the direct call_api that the shortcut stands for
DirectCall ==
    LET row == ShortcutTable[call.op]
    IN call_api(self, S(row.endpoint), D([k \in {row.key} |-> call.arg]),
                IF row.verb = "POST" THEN S(<<"P", "O", "S", "T">>)
                ELSE S(<<"G", "E", "T">>),
                call.payment_tx_hash, call.net)

\* the parameters a request carries: the query of a GET, the JSON of a POST
Payload(request) ==
    IF request.verb = "POST" THEN request.json ELSE request.params

(* C23: each shortcut sends exactly one request, with its fixed endpoint,  *)
(* method and single parameter key, carrying the payment headers exactly   *)
(* when a proof is supplied, and its request and outcome are those of the  *)
(* equivalent direct call_api.                                             *)
C23_Shortcuts ==
    IsShortcut =>
        LET row == ShortcutTable[call.op]
        IN /\ Len(call.sent) = 1
           /\ call.sent[1].verb = row.verb
           /\ call.sent[1].url = base_url.s \o row.endpoint
           /\ Payload(call.sent[1]) = D([k \in {row.key} |-> call.arg])
           /\ call.sent[1].headers =
                IF ProofSupplied
                THEN [k \in {"X-Payment-TxHash", "X-Payment-Chain"} |->
                        IF k = "X-Payment-TxHash" THEN call.payment_tx_hash
                        ELSE S(<<"b", "a", "s", "e">>)]
                ELSE EmptyDict
           /\ call.sent = DirectCall.sent
           /\ call.outcome = DirectCall.outcome

C23_Witness ==
    /\ pc = "returned" /\ call.op = "call_image_api"
    /\ call.arg = S(<<"Paris">>)
    /\ call.payment_tx_hash = S(<<"0xabc123">>)
    /\ call.sent[1].verb = "POST"
    /\ call.net.kind = "response" /\ call.net.status_code = 200
    /\ call.outcome.kind = "return"

---------------------------------------------------------------------------
(* The client's own state and the payment proof *)

\* the session's headers as the constructor sets them
DefaultHeaders ==
    [k \in {"User-Agent", "Accept"} |->
        IF k = "User-Agent" THEN S(<<"x402-autogpt-plugin/0.1.0">>)
        ELSE S(<<"application/json">>)]

PaymentHeaderNames == {"X-Payment-TxHash", "X-Payment-Chain"}

\* the operation takes a payment proof: call_api or a shortcut
TakesProof ==
    pc = "returned" /\ call.op \in {"call_api"} \cup DOMAIN ShortcutTable

\* the headers of the request as the session sends it: its own headers,
\* overridden by those of the call
HeadersOnTheWire == Merge(session_headers, call.sent[1].headers)

(* C24: no client operation changes base_url, timeout or the session's     *)
(* default headers, which stay User-Agent and Accept: application/json as  *)
(* constructed; so a call made without a payment proof, whatever calls     *)
(* came before it, sends no payment header.                                *)
C24_ClientStateIsFixed ==
    /\ [][/\ base_url' = base_url
          /\ timeout' = timeout
          /\ session_headers' = session_headers]_vars
    /\ [](/\ session_headers = DefaultHeaders
          /\ (TakesProof /\ ~ProofSupplied /\ call.sent # <<>>) =>
                DOMAIN HeadersOnTheWire \cap PaymentHeaderNames = {})

C24_Witness ==
    /\ IsCall /\ call.payment_tx_hash = None
    /\ Len(call.sent) = 1
    /\ DOMAIN HeadersOnTheWire = {"User-Agent", "Accept"}
    /\ base_url = S(<<"http://localhost:3000">>)
    /\ timeout = 5

(* C28: the outcome of a call_api call has payment_status "completed" only *)
(* if its request carried both payment headers, and "free" only if it      *)
(* carried neither; an empty-string proof counts as no proof for the       *)
(* headers and for the status alike.                                       *)
C28_StatusAgreesWithHeaders ==
    IsCall =>
        /\ (HasValue /\ "payment_status" \in DOMAIN Val) =>
             /\ Len(call.sent) = 1
             /\ Val.payment_status = S(<<"completed">>) =>
                  PaymentHeaderNames \subseteq DOMAIN call.sent[1].headers
             /\ Val.payment_status = S(<<"free">>) =>
                  PaymentHeaderNames \cap DOMAIN call.sent[1].headers = {}
        /\ (call.payment_tx_hash = S(<<>>) /\ call.sent # <<>>) =>
             /\ call.sent[1].headers = EmptyDict
             /\ (HasValue /\ "payment_status" \in DOMAIN Val) =>
                  Val.payment_status = S(<<"free">>)

C28_Witness ==
    /\ Responded(200) /\ call.payment_tx_hash = S(<<>>)
    /\ HasValue /\ Val.payment_status = S(<<"free">>)
    /\ call.sent[1].headers = EmptyDict

\* the request was answered with a status other than 200, or failed in transport
NotAnswered200 ==
    \/ call.net.kind \in {"timeout", "error"}
    \/ call.net.kind = "response" /\ call.net.status_code # 200

(* C29: for every response status other than 200 and for every transport   *)
(* failure the outcome of call_api is the same whatever payment proof was   *)
(* supplied, none included: a 402 that answers a call with a proof gives    *)
(* the PaymentRequired outcome of the call without proof.                   *)
C29_OutcomeIgnoresProof ==
    (IsCall /\ NotAnswered200) =>
        \A proof \in Proofs :
            call.outcome =
               call_api(self, call.endpoint, call.params, call.method, proof,
                        call.net).outcome

C29_Witness ==
    /\ Responded(402) /\ call.payment_tx_hash = S(<<"0xabc123">>)
    /\ HasValue /\ IsPaymentRequired(Val)
    /\ Val.cost_usdc = S(<<"0.05">>)

---------------------------------------------------------------------------
(* Interleaved invocations *)

\* what thread t's call would send and return if it ran alone on a client
\* with the headers of construction
Alone(t, net) ==
    call_api(self, threads[t].endpoint, None, S(<<"G", "E", "T">>),
             threads[t].payment_tx_hash, net)

\* the payment headers thread t's own proof calls for
OwnPaymentHeaders(t) ==
    IF threads[t].payment_tx_hash \in {None, S(<<>>)} THEN EmptyDict
    ELSE [k \in PaymentHeaderNames |->
            IF k = "X-Payment-TxHash" THEN threads[t].payment_tx_hash
            ELSE S(<<"b", "a", "s", "e">>)]

(* C25: when call_api invocations on one client interleave, the request    *)
(* and the headers each one sends and the outcome it returns are those of  *)
(* the same call running alone, given its own arguments and its own        *)
(* response, and no invocation changes base_url, timeout or the session's  *)
(* headers.                                                                *)
C25_InvocationsAreIndependent ==
    /\ [][/\ base_url' = base_url
          /\ timeout' = timeout
          /\ session_headers' = session_headers]_vars
    /\ [](\A t \in Threads :
            /\ threads[t].at \in {"waiting", "done"} =>
                 /\ <<threads[t].request>> = Alone(t, [kind |-> "timeout"]).sent
                 /\ threads[t].on_wire =
                      Merge(DefaultHeaders, OwnPaymentHeaders(t))
            /\ threads[t].at = "done" =>
                 threads[t].outcome = Alone(t, threads[t].net).outcome)

C25_Witness ==
    /\ threads[1].at = "done"
    /\ threads[1].payment_tx_hash = S(<<"0xabc123">>)
    /\ threads[1].net.kind = "response" /\ threads[1].net.status_code = 402
    /\ threads[2].at = "done"
    /\ threads[2].payment_tx_hash = None
    /\ threads[2].endpoint # threads[1].endpoint
    /\ threads[2].net.kind = "response" /\ threads[2].net.status_code = 200
    /\ threads[2].outcome.value.d.payment_status = S(<<"free">>)

---------------------------------------------------------------------------
(* The plugin's command cache *)

\* on_response has returned and the host holds what it returned
IsOnResponse == hook.op = "on_response"

\* pre_command has run _handle_call_api and returned
IsPluginCall == hook.op = "pre_command" /\ hook.handler = "call"

HeldCall(cache) == "x402_api_call" \in DOMAIN cache

\* a cached value as text: a number in decimal, a str as it is
TextOf(v) == IF v.t = "num" THEN <<ToString(v.n)>> ELSE v.s

\* some printed line is a label followed by the text of value v, or by it
\* and " USDC"
Printed(v) ==
    \E i \in 1..Len(hook.printed) :
        LET line == hook.printed[i]
        IN \/ line = <<line[1]>> \o TextOf(v)
           \/ line = <<line[1]>> \o TextOf(v) \o <<" USDC">>

(* C26: on_response returns its argument unchanged; with the plugin        *)
(* enabled and a non-empty cache the cache is empty afterwards, and the    *)
(* cached call's endpoint, cost and payment status are printed exactly     *)
(* when the cache held an x402_api_call entry, so that a call is reported  *)
(* at most once; with the plugin disabled the cache is left as it was and  *)
(* nothing is printed.                                                     *)
C26_OnResponse ==
    IsOnResponse =>
        /\ hook.returned = hook.response
        /\ (hook.was_enabled /\ DOMAIN hook.cache_before # {}) =>
             /\ command_cache = EmptyDict
             /\ hook.printed # <<>> <=> HeldCall(hook.cache_before)
        /\ (hook.printed # <<>>) =>
             /\ hook.was_enabled
             /\ HeldCall(hook.cache_before)
             /\ ~HeldCall(command_cache)
             /\ Printed(hook.cache_before["x402_api_call"].d.endpoint)
             /\ Printed(hook.cache_before["x402_api_call"].d.payment_status)
             /\ Printed(hook.cache_before["x402_api_call"].d.cost)
        /\ ~hook.was_enabled =>
             /\ command_cache = hook.cache_before
             /\ hook.printed = <<>>

C26_Witness ==
    /\ IsOnResponse /\ hook.was_enabled
    /\ DOMAIN hook.cache_before = {"x402_api_call", "other_key"}
    /\ hook.cache_before["x402_api_call"].d.cost = S(<<"0.05">>)
    /\ hook.printed # <<>>
    /\ command_cache = EmptyDict

\* what result.get(key, "unknown") gives for the returned result
ResultOr(key) ==
    IF key \in DOMAIN hook.result.value.d THEN hook.result.value.d[key]
    ELSE S(<<"unknown">>)

\* the endpoint argument of the command, "" when it has none
EndpointAsked ==
    IF "endpoint" \in DOMAIN hook.arguments.d THEN hook.arguments.d.endpoint
    ELSE S(<<>>)

(* C27: after an x402_call command whose call_api returns a result, the    *)
(* entry x402_api_call holds that call's endpoint, the result's cost_usdc  *)
(* as cost and the result's payment_status, each "unknown" when the result *)
(* has none, whatever entry was cached before; a call whose call_api       *)
(* raises leaves the cache unchanged.                                      *)
C27_CacheHoldsLatestCall ==
    IsPluginCall =>
        /\ hook.result.kind = "return" =>
             /\ HeldCall(command_cache)
             /\ command_cache["x402_api_call"] =
                  D([endpoint |-> EndpointAsked,
                     cost |-> ResultOr("cost_usdc"),
                     payment_status |-> ResultOr("payment_status")])
        /\ hook.result.kind = "raise" => command_cache = hook.cache_before

C27_Witness ==
    /\ IsPluginCall /\ hook.result.kind = "return"
    /\ HeldCall(hook.cache_before)
    /\ hook.cache_before["x402_api_call"].d.cost = S(<<"0.05">>)
    /\ hook.cache_before["x402_api_call"].d.endpoint = S(<<"/api/weather">>)
    /\ command_cache["x402_api_call"] =
         D([endpoint |-> S(<<"/api/test">>), cost |-> S(<<"unknown">>),
            payment_status |-> S(<<"free">>)])

\* the plugin's request was answered 402
PluginCallAnswered402 ==
    /\ hook.sent # <<>>
    /\ hook.net.kind = "response" /\ hook.net.status_code = 402

(* C30: no request of an x402_call command carries a payment header, the   *)
(* cached payment_status of a plugin call is never "completed", a 402      *)
(* answer yields PaymentRequired on every such call, and no cached entry   *)
(* has both a cost and a payment_status other than "unknown".              *)
C30_PluginNeverPays ==
    IsPluginCall =>
        /\ \A i \in 1..Len(hook.sent) :
              DOMAIN hook.sent[i].headers \cap PaymentHeaderNames = {}
        /\ HeldCall(command_cache) =>
              /\ command_cache["x402_api_call"].d.payment_status
                    # S(<<"completed">>)
              /\ \/ command_cache["x402_api_call"].d.cost = S(<<"unknown">>)
                 \/ command_cache["x402_api_call"].d.payment_status
                       = S(<<"unknown">>)
        /\ PluginCallAnswered402 =>
              /\ hook.result.kind = "return"
              /\ IsPaymentRequired(hook.result.value.d)

\* C30 for 402 answers whose body is a JSON object or does not parse
C30_PluginNeverPaysOnObjects ==
    (IsPluginCall
        /\ (PluginCallAnswered402 =>
              ~hook.net.body.parses \/ hook.net.body.json.t = "dict")) =>
    C30_PluginNeverPays

=============================================================================
